---- MODULE Spec2Model ----
(***************************************************************************)
(* A model of ricky_os's VGA text-mode console driver (src/vga_buffer.rs)  *)
(* and of the flows of src/main.rs that print through it.                  *)
(***************************************************************************)
EXTENDS Integers, Sequences, FiniteSets, TLC

\* ------------------------------------------------------------------------
\* Program constants
\* ------------------------------------------------------------------------
BUFFER_HEIGHT == 25
BUFFER_WIDTH == 80

NEWLINE == 10
SPACE == 32
PRINTABLE_LO == 32
PRINTABLE_HI == 126
PLACEHOLDER == 254

Yellow == 14
Black == 0

\* ------------------------------------------------------------------------
\* Bounds of the model
\* ------------------------------------------------------------------------
MaxCalls == 3
NCtx == 2
MaxPrints == 2
MaxFmts == 2

\* ------------------------------------------------------------------------
\* u8 arithmetic
\* ------------------------------------------------------------------------
U8 == 256

\* a << n on a u8: the bits shifted past bit 7 are lost
Shl8(a, n) == (a * (2 ^ n)) % U8

\* a >> n on a u8
Shr8(a, n) == a \div (2 ^ n)

RECURSIVE BitOrFrom(_, _, _)
BitOrFrom(a, b, bit) ==
    IF bit >= 8 THEN 0
    ELSE LET x == (a \div (2 ^ bit)) % 2
             y == (b \div (2 ^ bit)) % 2
             z == IF x = 1 \/ y = 1 THEN 1 ELSE 0
         IN z * (2 ^ bit) + BitOrFrom(a, b, bit + 1)

\* a | b on u8
BitOr8(a, b) == BitOrFrom(a, b, 0)

RECURSIVE BitAndFrom(_, _, _)
BitAndFrom(a, b, bit) ==
    IF bit >= 8 THEN 0
    ELSE LET x == (a \div (2 ^ bit)) % 2
             y == (b \div (2 ^ bit)) % 2
             z == IF x = 1 /\ y = 1 THEN 1 ELSE 0
         IN z * (2 ^ bit) + BitAndFrom(a, b, bit + 1)

\* a & b on u8
BitAnd8(a, b) == BitAndFrom(a, b, 0)

\* ------------------------------------------------------------------------
\* Color, ColorCode, ScreenChar
\* ------------------------------------------------------------------------
\* enum Color, #[repr(u8)]: the sixteen discriminants
Color == 0 .. 15

\* The mutant: the background is shifted by three bits.
ColorCode_new_shift3(foreground, background) ==
    BitOr8(Shl8(background, 3), foreground)

\* ColorCode::new(foreground, background): (background as u8) << 4 | (foreground as u8)
ColorCode_new(foreground, background) ==
    BitOr8(Shl8(background, 4), foreground)

\* struct ScreenChar { ascii_character, color_code }
ScreenChar(byte, code) == [ascii_character |-> byte, color_code |-> code]

Rows == 0 .. (BUFFER_HEIGHT - 1)
Cols == 0 .. (BUFFER_WIDTH - 1)

\* ------------------------------------------------------------------------
\* Writer: the operations as functions of the Writer's state w, a record
\*   chars            the Buffer's grid, chars[row][col]
\*   column_position  the cursor in the last row
\*   color_code       the current attribute
\* and of the history of one call, kept to state the claims:
\*   scrolls          the number of new_line executions
\*   stored           the character codes of the cells written, by the kind of write
\*   indexed          the row and the column indices the grid was indexed with
\* ------------------------------------------------------------------------
StoredOf(cell, via) == [ascii_character |-> cell.ascii_character, via |-> via]

\* The indices used so far and those of chars[row][col] for the given rows and
\* columns.
IndexedWith(indexed, rows, cols) ==
    [rows |-> indexed.rows \cup rows, cols |-> indexed.cols \cup cols]

\* The mutant: the last column is not cleared.
clear_row_short(w, row) ==
    LET blank == ScreenChar(SPACE, w.color_code)
    IN [w EXCEPT !.chars[row] =
                     [col \in Cols |-> IF col < BUFFER_WIDTH - 1 THEN blank
                                       ELSE w.chars[row][col]],
                 !.stored = @ \cup {StoredOf(blank, "clear")}]

\* for col in 0..BUFFER_WIDTH { chars[row][col].write(blank) }
clear_row(w, row) ==
    LET blank == ScreenChar(SPACE, w.color_code)
    IN [w EXCEPT !.chars[row] = [col \in Cols |-> blank],
                 !.stored = @ \cup {StoredOf(blank, "clear")},
                 !.indexed = IndexedWith(@, {row}, 0 .. (BUFFER_WIDTH - 1))]

\* The mutant: the row is copied onto itself.
CopyRowUpSame(w, row) ==
    [w EXCEPT !.chars[row] = [col \in Cols |-> w.chars[row][col]],
              !.stored = @ \cup {StoredOf(w.chars[row][col], "shift") : col \in Cols}]

\* One pass of new_line's outer loop: every cell of `row` is read and written
\* to row - 1.
CopyRowUp(w, row) ==
    [w EXCEPT !.chars[row - 1] = [col \in Cols |-> w.chars[row][col]],
              !.stored = @ \cup {StoredOf(w.chars[row][col], "shift") : col \in Cols},
              !.indexed = IndexedWith(@, {row, row - 1}, 0 .. (BUFFER_WIDTH - 1))]

\* for row in 1..BUFFER_HEIGHT
RECURSIVE ShiftRows(_, _)
ShiftRows(w, row) ==
    IF row >= BUFFER_HEIGHT THEN w
    ELSE ShiftRows(CopyRowUp(w, row), row + 1)

\* The mutant: the bottom row is left as it was.
new_line_no_clear(w) ==
    LET shifted == ShiftRows(w, 1)
    IN [shifted EXCEPT !.column_position = 0, !.scrolls = @ + 1]

\* The mutant: the cursor is left where it was.
new_line_keep_column(w) ==
    LET shifted == ShiftRows(w, 1)
        cleared == clear_row(shifted, BUFFER_HEIGHT - 1)
    IN [cleared EXCEPT !.scrolls = @ + 1]

\* The mutant: the loop over the rows starts at row 0.
new_line_from_row0(w) ==
    LET shifted == [ShiftRows(w, 1) EXCEPT
                       !.indexed = IndexedWith(@, {0, 0 - 1}, 0 .. (BUFFER_WIDTH - 1))]
        cleared == clear_row(shifted, BUFFER_HEIGHT - 1)
    IN [cleared EXCEPT !.column_position = 0, !.scrolls = @ + 1]

\* Writer::new_line
new_line(w) ==
    LET shifted == ShiftRows(w, 1)
        cleared == clear_row(shifted, BUFFER_HEIGHT - 1)
    IN [cleared EXCEPT !.column_position = 0, !.scrolls = @ + 1]

\* The mutants of the wrap test.
NeedsWrapLate(column) == column > BUFFER_WIDTH
NeedsWrapEager(column) == column >= BUFFER_WIDTH - 1

\* if self.column_position >= BUFFER_WIDTH
NeedsWrap(column) == column >= BUFFER_WIDTH

\* The mutant: the end of the row is tested before the byte is looked at.
write_byte_wrap_first(w, byte) ==
    LET w1 == IF NeedsWrap(w.column_position) THEN new_line(w) ELSE w
        row == BUFFER_HEIGHT - 1
        col == w1.column_position
        cell == ScreenChar(byte, w1.color_code)
    IN IF byte = NEWLINE THEN new_line(w1)
       ELSE [w1 EXCEPT !.chars[row][col] = cell,
                       !.column_position = @ + 1,
                       !.stored = @ \cup {StoredOf(cell, "put")},
                       !.indexed = IndexedWith(@, {row}, {col})]

\* The mutant: the row is ended as soon as it is full.
write_byte_wrap_after(w, byte) ==
    IF byte = NEWLINE THEN new_line(w)
    ELSE LET row == BUFFER_HEIGHT - 1
             col == w.column_position
             cell == ScreenChar(byte, w.color_code)
             w1 == [w EXCEPT !.chars[row][col] = cell,
                             !.column_position = @ + 1,
                             !.stored = @ \cup {StoredOf(cell, "put")},
                             !.indexed = IndexedWith(@, {row}, {col})]
         IN IF NeedsWrap(w1.column_position) THEN new_line(w1) ELSE w1

\* The mutant: the cell is written in the row above the last.
write_byte_row_above(w, byte) ==
    IF byte = NEWLINE THEN new_line(w)
    ELSE LET w1 == IF NeedsWrap(w.column_position) THEN new_line(w) ELSE w
             row == BUFFER_HEIGHT - 2
             col == w1.column_position
             cell == ScreenChar(byte, w1.color_code)
         IN [w1 EXCEPT !.chars[row][col] = cell,
                       !.column_position = @ + 1,
                       !.stored = @ \cup {StoredOf(cell, "put")},
                       !.indexed = IndexedWith(@, {row}, {col})]

\* Writer::write_byte
write_byte(w, byte) ==
    IF byte = NEWLINE THEN new_line(w)
    ELSE LET w1 == IF NeedsWrap(w.column_position) THEN new_line(w) ELSE w
             row == BUFFER_HEIGHT - 1
             col == w1.column_position
             cell == ScreenChar(byte, w1.color_code)
         IN [w1 EXCEPT !.chars[row][col] = cell,
                       !.column_position = @ + 1,
                       !.stored = @ \cup {StoredOf(cell, "put")},
                       !.indexed = IndexedWith(@, {row}, {col})]

\* 0x20..=0x7e | b'\n'
IsPrintableOrNewline(byte) ==
    (PRINTABLE_LO <= byte /\ byte <= PRINTABLE_HI) \/ byte = NEWLINE

\* The mutant: the byte is passed on whatever it is.
SubstituteRaw(byte) == byte

\* The match of write_string: the byte that is handed to write_byte.
Substitute(byte) == IF IsPrintableOrNewline(byte) THEN byte ELSE PLACEHOLDER

\* for byte in s.bytes(): the bytes s[lo] .. s[hi] are handled in order, the
\* first half of the range and then the second. The halving and the test of
\* the first half's cursor, which always holds, only make the evaluation of
\* the first half finish before the second starts; the order of the bytes is
\* that of the loop.
RECURSIVE WriteBytes(_, _, _, _)
WriteBytes(w, s, lo, hi) ==
    IF lo > hi THEN w
    ELSE IF lo = hi THEN write_byte(w, Substitute(s[lo]))
    ELSE LET mid == (lo + hi) \div 2
             half == WriteBytes(w, s, lo, mid)
         IN IF half.column_position >= 0
            THEN WriteBytes(half, s, mid + 1, hi)
            ELSE half

\* Writer::write_string
write_string(w, s) == WriteBytes(w, s, 1, Len(s))

\* ------------------------------------------------------------------------
\* State
\* ------------------------------------------------------------------------
VARIABLES
    chars,            \* Buffer.chars: the grid at 0xb8000
    column_position,  \* Writer.column_position
    color_code,       \* Writer.color_code
    foreground,       \* the foreground the attribute is made from
    background,       \* the background the attribute is made from
    op,               \* the last call made on the Writer: [kind, arg]
    scrolls,          \* the new_line executions of the last call
    stored,           \* the cell writes of the last call: {[ascii_character, via]}
    indexed,          \* the indices the last call used: [rows, cols]
    start_column,     \* column_position when the last call started
    start_blank,      \* whether the grid was all blank when the last call started
    calls,            \* the number of calls made so far
    locked,           \* the flag of WRITER's spin lock
    flow,             \* every execution context's place, flow[c]
    trace,            \* the write_byte calls made under print, in order:
                      \* [ctx, call, idx, byte, len]
    prints            \* the number of print calls started so far

writerVars == <<chars, column_position, color_code>>
colorVars == <<foreground, background>>
callVars == <<op, scrolls, stored, indexed, start_column, start_blank, calls>>
lockVars == <<locked, flow, trace, prints>>
vars == <<writerVars, colorVars, callVars, lockVars>>

\* The attribute the Writer is constructed with.
DefaultColor == ColorCode_new(Yellow, Black)

\* A row of spaces in the attribute code.
BlankRow(code) == [col \in Cols |-> ScreenChar(SPACE, code)]

\* A grid whose every cell is a space in the Writer's attribute: the screen
\* after BUFFER_HEIGHT line breaks.
BlankGrid == [row \in Rows |-> BlankRow(DefaultColor)]

\* The grid the firmware leaves: spaces in light gray on black.
BootGrid == [row \in Rows |-> BlankRow(7)]

\* The grid after the lines "00", "01", ... "24" were printed, the last one
\* without a line break: every row differs from every other.
RuledGrid ==
    [row \in Rows |-> [col \in Cols |->
        IF col = 0 THEN ScreenChar(48 + (row \div 10), DefaultColor)
        ELSE IF col = 1 THEN ScreenChar(48 + (row % 10), DefaultColor)
        ELSE ScreenChar(SPACE, DefaultColor)]]

\* The states the Writer is first used in: the grid and the cursor.
InitialScreens ==
    { [chars |-> BlankGrid, column_position |-> 0],
      [chars |-> BootGrid, column_position |-> 0],
      [chars |-> RuledGrid, column_position |-> 2] }

\* Whether every cell of the grid is a space in the current attribute.
IsBlank(grid, code) == \A row \in Rows : grid[row] = BlankRow(code)

\* The Writer's state as the record the operations take, at the start of a call.
CallStart ==
    [chars |-> chars, column_position |-> column_position,
     color_code |-> color_code, scrolls |-> 0, stored |-> {},
     indexed |-> [rows |-> {}, cols |-> {}]]

\* The Writer's state after a call that ended in w.
CallEnd(w, kind, arg) ==
    /\ chars' = w.chars
    /\ column_position' = w.column_position
    /\ color_code' = w.color_code
    /\ scrolls' = w.scrolls
    /\ stored' = w.stored
    /\ indexed' = w.indexed
    /\ op' = [kind |-> kind, arg |-> arg]
    /\ start_column' = column_position
    /\ start_blank' = IsBlank(chars, color_code)

\* n copies of byte
Rep(byte, n) == [i \in 1 .. n |-> byte]

\* The bytes write_byte is called with.
ByteInputs == {NEWLINE, 65, 88, 1}

\* The strings write_string is called with: "AB\n", "\u{1}", "e-acute" (two
\* bytes in UTF-8), a full row of 'X', a full row and one more, a full row and
\* a line break.
StringInputs ==
    { <<65, 66, NEWLINE>>, <<1>>, <<195, 169>>,
      Rep(88, BUFFER_WIDTH), Rep(88, BUFFER_WIDTH + 1),
      Rep(88, BUFFER_WIDTH) \o <<NEWLINE>> }

\* The execution contexts.
Ctx == 1 .. NCtx

\* A context that runs ordinary code and holds nothing.
IdleFlow ==
    [pc |-> "run", text |-> <<>>, pos |-> 1, fails |-> FALSE,
     panicking |-> FALSE, guard |-> FALSE, call |-> 0]

\* WRITER as constructed: unlocked, no context in a print call.
NoFlows ==
    /\ locked = FALSE
    /\ flow = [c \in Ctx |-> IdleFlow]
    /\ trace = <<>>
    /\ prints = 0

\* No call was made yet.
NoCall ==
    /\ op = [kind |-> "none", arg |-> <<>>]
    /\ scrolls = 0
    /\ stored = {}
    /\ indexed = [rows |-> {}, cols |-> {}]
    /\ start_column = 0
    /\ start_blank = FALSE
    /\ calls = 0

\* ------------------------------------------------------------------------
\* The Writer, called by one flow
\* ------------------------------------------------------------------------
WriterInit ==
    /\ \E s \in InitialScreens :
          /\ chars = s.chars
          /\ column_position = s.column_position
    /\ foreground = Yellow
    /\ background = Black
    /\ color_code = ColorCode_new(foreground, background)
    /\ NoCall
    /\ NoFlows

WriteByteCall ==
    /\ calls < MaxCalls
    /\ \E byte \in ByteInputs :
          CallEnd(write_byte(CallStart, byte), "write_byte", <<byte>>)
    /\ calls' = calls + 1
    /\ UNCHANGED <<colorVars, lockVars>>

WriteStringCall ==
    /\ calls < MaxCalls
    /\ \E s \in StringInputs :
          CallEnd(write_string(CallStart, s), "write_string", s)
    /\ calls' = calls + 1
    /\ UNCHANGED <<colorVars, lockVars>>

NewLineCall ==
    /\ calls < MaxCalls
    /\ CallEnd(new_line(CallStart), "new_line", <<>>)
    /\ calls' = calls + 1
    /\ UNCHANGED <<colorVars, lockVars>>

WriterNext == WriteByteCall \/ WriteStringCall \/ NewLineCall

SpecWriter == WriterInit /\ [][WriterNext]_vars

\* The Writer first used on the all-blank grid with the cursor at column 0.
BlankInit ==
    /\ WriterInit
    /\ chars = BlankGrid
    /\ column_position = 0

SpecBlank == BlankInit /\ [][WriterNext]_vars

\* ------------------------------------------------------------------------
\* ColorCode::new, applied to every pair of colors
\* ------------------------------------------------------------------------
ColorInit ==
    /\ foreground \in Color
    /\ background \in Color
    /\ color_code = 0
    /\ chars = BlankGrid
    /\ column_position = 0
    /\ NoCall
    /\ NoFlows

ColorCodeNewCall ==
    /\ op.kind = "none"
    /\ color_code' = ColorCode_new(foreground, background)
    /\ op' = [kind |-> "ColorCode::new", arg |-> <<foreground, background>>]
    /\ UNCHANGED <<chars, column_position, colorVars, scrolls, stored, indexed,
                   start_column, start_blank, calls, lockVars>>

ColorNext == ColorCodeNewCall

SpecColor == ColorInit /\ [][ColorNext]_vars

\* ------------------------------------------------------------------------
\* print! and println! called by several execution contexts, and the panic
\* handler
\* ------------------------------------------------------------------------
\* print!(content): the text that reaches write_fmt
print_macro(content) == content

\* println!(content): print!("{}\n", content)
println_macro(content) == print_macro(content \o <<NEWLINE>>)

\* The print calls the contexts make: println!("A"), and print!("B{}", x)
\* with an x whose Display fails once "B" was written.
PrintInputs ==
    { [text |-> println_macro(<<65>>), fails |-> FALSE],
      [text |-> print_macro(<<66>>), fails |-> TRUE] }

\* println!("{}", info) of the panic handler: "P" stands for the message.
PanicText == println_macro(<<80>>)

SpecPrintInit ==
    /\ chars = BlankGrid
    /\ column_position = 0
    /\ foreground = Yellow
    /\ background = Black
    /\ color_code = ColorCode_new(foreground, background)
    /\ NoCall
    /\ NoFlows

\* The mutants of the lock's test.
LockAvailableAlways(c) == TRUE
LockAvailableReentrant(c) == ~locked \/ flow[c].guard

\* spin::Mutex::lock: the compare-exchange of the flag succeeds
LockAvailable(c) == ~locked

\* A context calls print! or println!: _print starts with WRITER.lock().
StartPrint(c) ==
    /\ flow[c].pc = "run"
    /\ ~flow[c].panicking
    /\ prints < MaxPrints
    /\ \E m \in PrintInputs :
          flow' = [flow EXCEPT ![c] =
                      [@ EXCEPT !.pc = "lock", !.text = m.text, !.pos = 1,
                                !.fails = m.fails, !.call = prints + 1]]
    /\ prints' = prints + 1
    /\ UNCHANGED <<writerVars, colorVars, callVars, locked, trace>>

\* Ordinary code panics: the panic handler starts println!("{}", info).
Fault(c) ==
    /\ flow[c].pc = "run"
    /\ ~flow[c].panicking
    /\ flow' = [flow EXCEPT ![c] =
                   [@ EXCEPT !.pc = "lock", !.text = PanicText, !.pos = 1,
                             !.fails = FALSE, !.panicking = TRUE,
                             !.call = 0 - c]]
    /\ UNCHANGED <<writerVars, colorVars, callVars, locked, trace, prints>>

\* WRITER.lock() finds the lock free and takes it.
Lock(c) ==
    /\ flow[c].pc = "lock"
    /\ LockAvailable(c)
    /\ locked' = TRUE
    /\ flow' = [flow EXCEPT ![c] = [@ EXCEPT !.pc = "write", !.guard = TRUE]]
    /\ UNCHANGED <<writerVars, colorVars, callVars, trace, prints>>

\* WRITER.lock() finds the lock taken and tries again.
Spin(c) ==
    /\ flow[c].pc = "lock"
    /\ ~LockAvailable(c)
    /\ UNCHANGED vars

\* The mutant: the lock is given up after every byte.
WriteStepUnlocked(c) ==
    /\ flow[c].pc = "write"
    /\ flow[c].pos <= Len(flow[c].text)
    /\ LET byte == Substitute(flow[c].text[flow[c].pos])
       IN /\ CallEnd(write_byte(CallStart, byte), "write_byte", <<byte>>)
          /\ trace' = Append(trace, [ctx |-> c, call |-> flow[c].call,
                                     idx |-> flow[c].pos, byte |-> byte,
                                     len |-> Len(flow[c].text)])
    /\ flow' = [flow EXCEPT ![c] = [@ EXCEPT !.pos = @ + 1]]
    /\ locked' = FALSE
    /\ UNCHANGED <<colorVars, calls, prints>>

\* write_fmt hands the next byte of the text to write_string's loop.
WriteStep(c) ==
    /\ flow[c].pc = "write"
    /\ flow[c].pos <= Len(flow[c].text)
    /\ LET byte == Substitute(flow[c].text[flow[c].pos])
       IN /\ CallEnd(write_byte(CallStart, byte), "write_byte", <<byte>>)
          /\ trace' = Append(trace, [ctx |-> c, call |-> flow[c].call,
                                     idx |-> flow[c].pos, byte |-> byte,
                                     len |-> Len(flow[c].text)])
    /\ flow' = [flow EXCEPT ![c] = [@ EXCEPT !.pos = @ + 1]]
    /\ UNCHANGED <<colorVars, calls, locked, prints>>

\* The mutant: _print returns and the lock stays taken (the guard is leaked).
ReturnKeepLocked(c) ==
    /\ flow[c].pc = "write"
    /\ flow[c].pos > Len(flow[c].text)
    /\ ~flow[c].fails
    /\ flow' = [flow EXCEPT ![c] =
                   [@ EXCEPT !.pc = IF flow[c].panicking THEN "halt" ELSE "run",
                             !.guard = FALSE]]
    /\ UNCHANGED <<writerVars, colorVars, callVars, locked, trace, prints>>

\* write_fmt returned Ok: unwrap passes, the guard is dropped at the end of
\* the statement and _print returns; the panic handler then halts.
Return(c) ==
    /\ flow[c].pc = "write"
    /\ flow[c].pos > Len(flow[c].text)
    /\ ~flow[c].fails
    /\ locked' = FALSE
    /\ flow' = [flow EXCEPT ![c] =
                   [@ EXCEPT !.pc = IF flow[c].panicking THEN "halt" ELSE "run",
                             !.guard = FALSE]]
    /\ UNCHANGED <<writerVars, colorVars, callVars, trace, prints>>

\* The mutant: the error of write_fmt is dropped and _print returns.
UnwrapIgnore(c) ==
    /\ flow[c].pc = "write"
    /\ flow[c].pos > Len(flow[c].text)
    /\ flow[c].fails
    /\ locked' = FALSE
    /\ flow' = [flow EXCEPT ![c] = [@ EXCEPT !.pc = "run", !.guard = FALSE]]
    /\ UNCHANGED <<writerVars, colorVars, callVars, trace, prints>>

\* write_fmt returned Err: unwrap panics while the guard is alive, and the
\* panic handler starts println!("{}", info).
UnwrapPanic(c) ==
    /\ flow[c].pc = "write"
    /\ flow[c].pos > Len(flow[c].text)
    /\ flow[c].fails
    /\ flow' = [flow EXCEPT ![c] =
                   [@ EXCEPT !.pc = "lock", !.text = PanicText, !.pos = 1,
                             !.fails = FALSE, !.panicking = TRUE,
                             !.call = 0 - c]]
    /\ UNCHANGED <<writerVars, colorVars, callVars, locked, trace, prints>>

SpecPrintNext ==
    \E c \in Ctx :
        \/ StartPrint(c)
        \/ Fault(c)
        \/ Lock(c)
        \/ Spin(c)
        \/ WriteStep(c)
        \/ Return(c)
        \/ UnwrapPanic(c)

SpecPrint == SpecPrintInit /\ [][SpecPrintNext]_vars

\* write_fmt has a byte left to write.
CanWrite(c) == flow[c].pc = "write" /\ flow[c].pos <= Len(flow[c].text)

\* The step of c is a WriteStep: c stays in write_fmt, one byte further.
WroteByte(c) ==
    /\ flow[c].pc = "write"
    /\ flow'[c].pc = "write"
    /\ flow'[c].pos = flow[c].pos + 1

\* Every context is a running flow of instructions: a step of _print that can
\* be taken is taken. (Nothing makes ordinary code call print or panic.) The
\* last conjunct is the weak fairness of WriteStep(c), written with its guard
\* and with what its steps do, so that no grid is computed to evaluate it.
PrintFairness ==
    \A c \in Ctx :
        /\ WF_vars(Lock(c))
        /\ WF_vars(Return(c))
        /\ WF_vars(UnwrapPanic(c))
        /\ (<>[]CanWrite(c) => []<><<WroteByte(c)>>_vars)

SpecPrintFair == SpecPrint /\ PrintFairness

\* ------------------------------------------------------------------------
\* print! and println! called by one flow, the text handed over in fragments
\* ------------------------------------------------------------------------
\* The mutant: a fragment that starts at the end of the row starts a new row.
write_str_wrap(w, s) ==
    write_string(IF NeedsWrap(w.column_position) THEN new_line(w) ELSE w, s)

\* fmt::Write::write_str: self.write_string(s); Ok(())
write_str(w, s) == write_string(w, s)

\* Writer::write_fmt (the provided method of fmt::Write): every piece of the
\* formatted text, literal or argument, goes through write_str, in order.
RECURSIVE write_fmt(_, _)
write_fmt(w, args) ==
    IF args = <<>> THEN w
    ELSE LET first == write_str(w, Head(args))
         IN IF first.column_position >= 0
            THEN write_fmt(first, Tail(args))
            ELSE first

\* The mutant: the line break is left out.
println_args_no_break(args) == print_macro(args)

\* println!(args): print!("{}\n", format_args!(args)), the pieces of args and
\* then the literal "\n".
println_args(args) == print_macro(args \o << <<NEWLINE>> >>)

\* The formatted contents, as the pieces write_fmt hands over: "A"; a row
\* less one of 'X' and "XX"; "\u{1}" and "e-acute"; a full row of 'X';
\* "A\n" and "B"; an empty piece and "A".
FmtInputs ==
    { << <<65>> >>,
      << Rep(88, BUFFER_WIDTH - 1), <<88, 88>> >>,
      << <<1>>, <<195, 169>> >>,
      << Rep(88, BUFFER_WIDTH) >>,
      << <<65, NEWLINE>>, <<66>> >>,
      << <<>>, <<65>> >> }

\* print!(content), from WRITER.lock() to the drop of the guard
PrintCall ==
    /\ calls < MaxFmts
    /\ \E content \in FmtInputs :
          CallEnd(write_fmt(CallStart, print_macro(content)), "print", content)
    /\ calls' = calls + 1
    /\ UNCHANGED <<colorVars, lockVars>>

\* println!(content)
PrintlnCall ==
    /\ calls < MaxFmts
    /\ \E content \in FmtInputs :
          CallEnd(write_fmt(CallStart, println_args(content)), "println", content)
    /\ calls' = calls + 1
    /\ UNCHANGED <<colorVars, lockVars>>

FmtNext == PrintCall \/ PrintlnCall

SpecFmt == WriterInit /\ [][FmtNext]_vars

\* ------------------------------------------------------------------------
\* Properties of print under the lock (SpecPrint)
\* ------------------------------------------------------------------------
\* The contexts that are inside write_fmt, writing to the grid.
Mutators == {c \in Ctx : flow[c].pc = "write"}

\* C1: at most one context is writing at any instant, and the write_byte
\* calls of one print call are next to each other in the order of all
\* writes, in the order of the bytes of its text.
C1_OneMutator ==
    /\ Cardinality(Mutators) <= 1
    /\ \A i \in 1 .. Len(trace) : \A j \in 1 .. Len(trace) :
          (i < j /\ trace[i].call = trace[j].call)
            => /\ trace[j].idx - trace[i].idx = j - i
               /\ \A k \in i .. j : trace[k].call = trace[i].call

\* Two contexts each wrote a two-byte text, and the print call that started
\* second got the lock first.
C1_Witness ==
    /\ Len(trace) = 4
    /\ trace[1].ctx # trace[4].ctx
    /\ trace[2].idx = 2
    /\ trace[4].idx = 2
    /\ 0 < trace[4].call
    /\ trace[4].call < trace[1].call

\* The panic handler of c waits for the lock that the print call it
\* interrupted still holds.
Deadlocked(c) ==
    /\ flow[c].panicking
    /\ flow[c].pc = "lock"
    /\ flow[c].guard
    /\ locked

\* C2: once a panic handler waits for the lock its own interrupted print
\* call holds, the lock stays taken, the handler stays waiting and neither
\* the grid nor the cursor changes again.
C2_Deadlock ==
    [][\A c \in Ctx :
         Deadlocked(c)
           => /\ Deadlocked(c)'
              /\ flow'[c] = flow[c]
              /\ UNCHANGED <<chars, column_position, locked, trace>>]_vars

\* A context is deadlocked and every other context waits for the lock too.
C2_Witness ==
    \E c \in Ctx :
        /\ Deadlocked(c)
        /\ \A d \in Ctx : flow[d].pc = "lock"

\* The context is inside a print call (of ordinary code or of the panic
\* handler).
InPrint(c) == flow[c].pc \in {"lock", "write"}

\* No other context has called print or panicked.
Alone(c) == \A d \in Ctx \ {c} : flow[d] = IdleFlow

\* C11: the lock is free whenever no print call is in progress; a print call
\* of a flow that has not panicked and is the only one to print finds the
\* lock free, and, when its formatting does not fail, it returns.
C11_LockReleased ==
    /\ []((\A c \in Ctx : ~InPrint(c)) => ~locked)
    /\ [](\A c \in Ctx :
            (flow[c].pc = "lock" /\ ~flow[c].panicking /\ Alone(c)) => ~locked)
    /\ (\E c \in Ctx :
            InPrint(c) /\ ~flow[c].panicking /\ ~flow[c].fails /\ Alone(c))
         ~> (\A c \in Ctx : flow[c].pc = "run" \/ ~Alone(c))

\* One flow made two print calls one after the other; both returned.
C11_Witness ==
    \E c \in Ctx :
        /\ Alone(c)
        /\ flow[c].pc = "run"
        /\ flow[c].call = 2
        /\ Len(trace) = 4
        /\ ~locked

\* write_fmt of the print call of c has returned an error.
Failed(c) ==
    /\ flow[c].pc = "write"
    /\ flow[c].pos > Len(flow[c].text)
    /\ flow[c].fails

\* C13: when write_fmt fails inside a print call, the next step of the flow
\* is into the panic handler, with nothing written and the lock as it was; a
\* flow that entered the panic handler never runs ordinary code again; and
\* the handler of a failed print call, which waits for the lock with the
\* guard of the failed call alive, has written no byte.
C13_FailureFatal ==
    /\ [][\A c \in Ctx :
            (Failed(c) /\ flow'[c] # flow[c])
              => /\ flow'[c].panicking
                 /\ flow'[c].pc = "lock"
                 /\ flow'[c].text = PanicText
                 /\ UNCHANGED <<chars, column_position, trace, locked>>]_vars
    /\ [](\A c \in Ctx : flow[c].panicking => flow[c].pc # "run")
    /\ [](\A c \in Ctx :
            (flow[c].panicking /\ flow[c].guard /\ flow[c].pc # "write")
              => /\ flow[c].pc = "lock"
                 /\ \A i \in 1 .. Len(trace) : trace[i].call # 0 - c)

\* The print call of the only flow failed after its one byte was written, and
\* the flow is in the panic handler.
C13_Witness ==
    \E c \in Ctx :
        /\ Alone(c)
        /\ flow[c].panicking
        /\ flow[c].guard
        /\ flow[c].text = PanicText
        /\ Len(trace) = 1
        /\ trace[1].ctx = c
        /\ trace[1].call > 0

\* C17: the bytes of one println, content and line break, are written under
\* one taking of the lock: after a write of a byte that is not the last of
\* its text, the next write on the grid is that of the next byte of the same
\* call, and until it happens the same call holds the lock; and the last
\* byte of a println is the line break, which scrolls.
C17_PrintlnAtomic ==
    /\ \A i \in 1 .. Len(trace) :
          trace[i].idx < trace[i].len
            => IF i < Len(trace)
               THEN /\ trace[i + 1].ctx = trace[i].ctx
                    /\ trace[i + 1].call = trace[i].call
                    /\ trace[i + 1].idx = trace[i].idx + 1
               ELSE /\ locked
                    /\ flow[trace[i].ctx].pc = "write"
                    /\ flow[trace[i].ctx].guard
                    /\ flow[trace[i].ctx].call = trace[i].call
                    /\ flow[trace[i].ctx].pos = trace[i].idx + 1
    /\ \A c \in Ctx :
          (flow[c].pc = "write" /\ flow[c].text = println_macro(<<65>>)
             /\ flow[c].pos > Len(flow[c].text))
            => /\ trace[Len(trace)].ctx = c
               /\ trace[Len(trace)].byte = NEWLINE
               /\ trace[Len(trace) - 1].ctx = c
               /\ trace[Len(trace) - 1].byte = 65
               /\ op.arg = <<NEWLINE>>
               /\ scrolls = 1
               /\ column_position = 0

\* A println wrote its character and its line break while another context,
\* which called print before it, was waiting for the lock.
C17_Witness ==
    /\ Len(trace) >= 2
    /\ trace[Len(trace)].byte = NEWLINE
    /\ trace[Len(trace) - 1].byte = 65
    /\ \E d \in Ctx :
          /\ d # trace[Len(trace)].ctx
          /\ flow[d].pc = "lock"
          /\ 0 < flow[d].call
          /\ flow[d].call < trace[Len(trace)].call

\* ------------------------------------------------------------------------
\* Properties of the Writer (SpecWriter)
\* ------------------------------------------------------------------------
LastRow == BUFFER_HEIGHT - 1

\* The cell the Writer's blank is.
Blank == ScreenChar(SPACE, color_code)

\* Whether the character code is one the substitution lets through.
IsShown(byte) ==
    (PRINTABLE_LO <= byte /\ byte <= PRINTABLE_HI) \/ byte = PLACEHOLDER

NoNewline(s) == \A i \in 1 .. Len(s) : s[i] # NEWLINE

\* The last call was a write_byte of a byte other than the line break.
PlainByteCall == op.kind = "write_byte" /\ op.arg[1] # NEWLINE

\* The last call ended with new_line: new_line itself, write_byte of a line
\* break, or write_string of a string that ends in one.
EndedWithNewLine ==
    \/ op.kind = "new_line"
    \/ op.kind = "write_byte" /\ op.arg = <<NEWLINE>>
    \/ op.kind = "write_string" /\ Len(op.arg) > 0 /\ op.arg[Len(op.arg)] = NEWLINE

\* The last call was new_line and nothing else: new_line itself, or write_byte
\* of a line break.
WasNewLine ==
    \/ op.kind = "new_line"
    \/ op.kind = "write_byte" /\ op.arg = <<NEWLINE>>

\* C3: after construction and after every call of write_byte, write_string or
\* new_line, column_position is in 0 .. 80.
C3_ColumnInRange == column_position \in 0 .. BUFFER_WIDTH

\* A write_byte that found the cursor at 80 and wrapped.
C3_Witness ==
    PlainByteCall /\ start_column = BUFFER_WIDTH /\ column_position = 1

\* C4: from column 0, up to 80 characters without a line break leave the
\* cursor at their number (80 for 80 of them) with no scroll; an 81st
\* character makes exactly one scroll and is then placed at row 24, column 0.
C4_WrapBoundary ==
    /\ (op.kind = "write_string" /\ NoNewline(op.arg) /\ start_column = 0
            /\ Len(op.arg) <= BUFFER_WIDTH)
         => (column_position = Len(op.arg) /\ scrolls = 0)
    /\ (op.kind = "write_string" /\ NoNewline(op.arg) /\ start_column = 0
            /\ Len(op.arg) = BUFFER_WIDTH + 1)
         => /\ scrolls = 1
            /\ chars[LastRow][0] = ScreenChar(Substitute(op.arg[Len(op.arg)]), color_code)
            /\ column_position = 1
    /\ (PlainByteCall /\ start_column < BUFFER_WIDTH)
         => (scrolls = 0 /\ column_position = start_column + 1)
    /\ (PlainByteCall /\ start_column = BUFFER_WIDTH)
         => /\ scrolls = 1
            /\ chars[LastRow][0] = ScreenChar(op.arg[1], color_code)
            /\ column_position = 1

\* 80 characters were written from column 0, and then one more.
C4_Witness ==
    /\ PlainByteCall /\ start_column = BUFFER_WIDTH /\ scrolls = 1
    /\ \A col \in Cols : chars[LastRow - 1][col].ascii_character = 88

\* C5: a new_line leaves in every row 0 .. 23 the cells that the row below
\* held before it; what row 0 held is gone.
C5_ScrollShift ==
    [][WasNewLine'
         => \A row \in 0 .. (BUFFER_HEIGHT - 2) : chars'[row] = chars[row + 1]]_vars

\* A new_line on the ruled grid: the rows "01" .. "24" are now rows 0 .. 23.
C5_Witness ==
    /\ op.kind = "new_line"
    /\ \A row \in 0 .. (BUFFER_HEIGHT - 2) : chars[row] = RuledGrid[row + 1]

\* C6: right after a new_line every cell of row 24 is a space in the current
\* attribute, and column_position is 0.
C6_BottomRowBlank ==
    EndedWithNewLine => (chars[LastRow] = BlankRow(color_code) /\ column_position = 0)

\* A new_line on the firmware's grid, whose spaces are not in the Writer's
\* attribute.
C6_Witness ==
    /\ op.kind = "new_line"
    /\ chars[LastRow - 1] = BlankRow(7)
    /\ chars[LastRow] = BlankRow(color_code)

\* C7 as stated: every cell write of a write_string stores a printable
\* character or the placeholder.
C7_AllStoredShown ==
    op.kind = "write_string" => \A e \in stored : IsShown(e.ascii_character)

\* C7, amended: the cell writes of a write_string that place a byte of the
\* string or clear the bottom row store a printable character or the
\* placeholder, and a last byte that is neither printable nor a line break is
\* in its cell as the placeholder; the copies of a scroll store what the grid
\* held, so on a grid of printable characters and placeholders every cell
\* write of the call stores one.
C7_PlacedShown ==
    /\ [](op.kind = "write_string"
            => /\ \A e \in stored :
                    e.via \in {"put", "clear"} => IsShown(e.ascii_character)
               /\ (Len(op.arg) > 0 /\ ~IsPrintableOrNewline(op.arg[Len(op.arg)]))
                    => chars[LastRow][column_position - 1]
                         = ScreenChar(PLACEHOLDER, color_code))
    /\ [][(op'.kind = "write_string"
             /\ \A row \in Rows : \A col \in Cols :
                   IsShown(chars[row][col].ascii_character))
            => \A e \in stored' : IsShown(e.ascii_character)]_vars

\* write_string("\u{1}") placed the placeholder.
C7_Witness ==
    /\ op.kind = "write_string" /\ op.arg = <<1>>
    /\ chars[LastRow][start_column].ascii_character = PLACEHOLDER

\* C8: "AB\n" written on an all-blank grid from column 0 leaves 'A' and 'B'
\* at the start of row 23, the rest of row 23 and row 24 blank, the cursor
\* at 0.
C8_ScenarioA ==
    (op.kind = "write_string" /\ op.arg = <<65, 66, NEWLINE>>
        /\ start_blank /\ start_column = 0)
      => /\ chars[LastRow - 1] =
               [col \in Cols |-> IF col = 0 THEN ScreenChar(65, color_code)
                                 ELSE IF col = 1 THEN ScreenChar(66, color_code)
                                 ELSE Blank]
         /\ chars[LastRow] = BlankRow(color_code)
         /\ column_position = 0

C8_Witness ==
    /\ op.kind = "write_string" /\ op.arg = <<65, 66, NEWLINE>>
    /\ start_blank /\ start_column = 0
    /\ chars[LastRow - 1][1].ascii_character = 66

\* C9: 80 'X' written from column 0 fill row 24 with 'X'; with an 81st there
\* is one scroll, the row of 'X' is row 23, the 81st 'X' is at row 24,
\* column 0, the other 79 cells of row 24 are blank and the cursor is at 1.
C9_ScenarioB ==
    /\ (op.kind = "write_string" /\ op.arg = Rep(88, BUFFER_WIDTH)
            /\ start_column = 0)
         => /\ chars[LastRow] = [col \in Cols |-> ScreenChar(88, color_code)]
            /\ scrolls = 0
            /\ column_position = BUFFER_WIDTH
    /\ (op.kind = "write_string" /\ op.arg = Rep(88, BUFFER_WIDTH + 1)
            /\ start_column = 0)
         => /\ scrolls = 1
            /\ chars[LastRow - 1] = [col \in Cols |-> ScreenChar(88, color_code)]
            /\ chars[LastRow] =
                  [col \in Cols |-> IF col = 0 THEN ScreenChar(88, color_code)
                                    ELSE Blank]
            /\ column_position = 1

C9_Witness ==
    /\ op.kind = "write_string" /\ op.arg = Rep(88, BUFFER_WIDTH + 1)
    /\ start_column = 0
    /\ chars[LastRow][0].ascii_character = 88
    /\ column_position = 1

\* C14: every Writer operation ends, and scrolls a bounded number of times:
\* write_byte at most once, whatever the byte and the cursor, write_string at
\* most once per byte of the string, new_line once.
C14_BoundedScrolls ==
    /\ op.kind = "write_byte" => scrolls <= 1
    /\ op.kind = "write_string" => scrolls <= Len(op.arg)
    /\ op.kind = "new_line" => scrolls = 1
    /\ start_column \in 0 .. BUFFER_WIDTH

\* write_string of a full row of 'X' and a line break from column 2 scrolled
\* twice, and write_byte of a line break at column 80 would scroll once.
C14_Witness ==
    /\ op.kind = "write_string"
    /\ op.arg = Rep(88, BUFFER_WIDTH) \o <<NEWLINE>>
    /\ start_column = 2
    /\ scrolls = 2
    /\ column_position = 0

\* C15: write_byte(b) with b not a line break and the cursor below 80 changes
\* the cell (24, cursor) to b in the current attribute and no other cell, adds
\* 1 to the cursor, and leaves the attribute as it was.
C15_PlainWriteFrame ==
    [][ (op'.kind = "write_byte" /\ op'.arg[1] # NEWLINE
           /\ column_position < BUFFER_WIDTH)
          => /\ chars' = [chars EXCEPT ![LastRow][column_position] =
                              ScreenChar(op'.arg[1], color_code)]
             /\ column_position' = column_position + 1
             /\ color_code' = color_code
             /\ scrolls' = 0
      ]_vars

\* write_byte('X') at column 2 of the ruled screen: the 'X' is at (24, 2), the
\* digits of the last row and of the first are where they were.
C15_Witness ==
    /\ PlainByteCall
    /\ op.arg = <<88>>
    /\ start_column = 2
    /\ column_position = 3
    /\ chars[LastRow][2] = ScreenChar(88, color_code)
    /\ chars[LastRow][1].ascii_character = 52
    /\ chars[0][1].ascii_character = 48
    /\ chars[LastRow][3] = Blank

\* C16: every index the Writer uses on the grid is inside it, the row in
\* 0 .. 24 and the column in 0 .. 79; write_byte at cursor 80 scrolls first
\* and indexes column 0, not column 80.
C16_IndicesInGrid ==
    /\ \A row \in indexed.rows : 0 <= row /\ row < BUFFER_HEIGHT
    /\ \A col \in indexed.cols : 0 <= col /\ col < BUFFER_WIDTH
    /\ (PlainByteCall /\ start_column < BUFFER_WIDTH)
          => indexed = [rows |-> {LastRow}, cols |-> {start_column}]
    /\ (PlainByteCall /\ start_column = BUFFER_WIDTH)
          => /\ scrolls = 1
             /\ chars[LastRow][0].ascii_character = op.arg[1]

\* write_byte of a character at cursor 80: every row and every column of the
\* grid was indexed by the scroll, and the character is at (24, 0).
C16_Witness ==
    /\ PlainByteCall
    /\ start_column = BUFFER_WIDTH
    /\ indexed.rows = Rows
    /\ indexed.cols = Cols
    /\ column_position = 1

\* A full row of 'X'.
FullRow(code) == [col \in Cols |-> ScreenChar(88, code)]

\* C18: 80 characters and then a line break, written from column 0, scroll
\* once: the 80 characters are in row 23, every row above holds what the row
\* below it held, row 24 is blank and the cursor is at column 0; and a line
\* break written when the cursor is at 80 scrolls once, moving the full row
\* to row 23.
C18_LazyWrap ==
    [][ /\ (op'.kind = "write_string"
              /\ op'.arg = Rep(88, BUFFER_WIDTH) \o <<NEWLINE>>
              /\ column_position = 0)
            => /\ scrolls' = 1
               /\ chars' = [row \in Rows |->
                              IF row < LastRow - 1 THEN chars[row + 1]
                              ELSE IF row = LastRow - 1 THEN FullRow(color_code)
                              ELSE BlankRow(color_code)]
               /\ column_position' = 0
        /\ (op'.kind = "write_byte" /\ op'.arg = <<NEWLINE>>
              /\ column_position = BUFFER_WIDTH)
            => /\ scrolls' = 1
               /\ chars' = [row \in Rows |->
                              IF row < LastRow THEN chars[row + 1]
                              ELSE BlankRow(color_code)]
               /\ column_position' = 0
      ]_vars

\* "AB\n" and then a full row of 'X' and a line break: the row of 'X' is in
\* row 23, "AB" in the row above it, and there was one scroll.
C18_Witness ==
    /\ op.kind = "write_string"
    /\ op.arg = Rep(88, BUFFER_WIDTH) \o <<NEWLINE>>
    /\ start_column = 0
    /\ scrolls = 1
    /\ chars[LastRow - 1] = FullRow(color_code)
    /\ chars[LastRow - 2][0].ascii_character = 65
    /\ chars[LastRow - 2][1].ascii_character = 66
    /\ chars[LastRow] = BlankRow(color_code)
    /\ column_position = 0

\* ------------------------------------------------------------------------
\* Properties of the Writer on the blank screen (SpecBlank)
\* ------------------------------------------------------------------------
\* C19: from the all-blank grid and cursor 0, after any calls, every cell of
\* the last row at a column not below the cursor is blank, a space in the
\* current attribute.
C19_RestOfRowBlank ==
    \A col \in Cols :
        col >= column_position => chars[LastRow][col] = Blank

\* A character was written at cursor 80: it is at (24, 0), the full row is in
\* row 23, and the rest of the last row is blank.
C19_Witness ==
    /\ PlainByteCall
    /\ start_column = BUFFER_WIDTH
    /\ column_position = 1
    /\ chars[LastRow][0].ascii_character = op.arg[1]
    /\ chars[LastRow - 1] = FullRow(color_code)
    /\ chars[LastRow][1] = Blank

\* ------------------------------------------------------------------------
\* Properties of ColorCode::new (SpecColor)
\* ------------------------------------------------------------------------
\* C10: ColorCode::new(fg, bg) is the byte 16 * bg + fg; its low four bits
\* are fg and its high four bits bg, so no other pair has the same code; the
\* code of yellow on black is 0x0E.
C10_EncodingRoundTrip ==
    op.kind = "ColorCode::new"
      => /\ color_code \in 0 .. 255
         /\ color_code = 16 * background + foreground
         /\ BitAnd8(color_code, 15) = foreground
         /\ Shr8(color_code, 4) = background
         /\ \A f \in Color : \A b \in Color :
               ColorCode_new(f, b) = color_code => (f = foreground /\ b = background)
         /\ (foreground = Yellow /\ background = Black) => color_code = 14

\* The code of white on light gray: both nibbles have bits set.
C10_Witness ==
    /\ op.kind = "ColorCode::new"
    /\ foreground = 15 /\ background = 7
    /\ color_code = 127

\* ------------------------------------------------------------------------
\* Properties of print! and println! called by one flow (SpecFmt)
\* ------------------------------------------------------------------------
\* The pieces of a formatted text, joined.
RECURSIVE Flat(_)
Flat(args) == IF args = <<>> THEN <<>> ELSE Head(args) \o Flat(Tail(args))

\* The character codes that write_byte put in the last row during the call
\* that ends in the primed state.
PutCodes == {x.ascii_character : x \in {y \in stored' : y.via = "put"}}

\* The bytes of the text that are not line breaks, after substitution.
ShownCodes(text) ==
    {Substitute(text[i]) : i \in {j \in 1 .. Len(text) : text[j] # NEWLINE}}

\* The last row after `text`, which has no line break and fits in the rest of
\* the row, was written from `column` on.
RowWith(row, column, text, code) ==
    [col \in Cols |->
        IF column <= col /\ col < column + Len(text)
        THEN ScreenChar(Substitute(text[col - column + 1]), code)
        ELSE row[col]]

\* print!(content) and then the writing of one line break.
PrintThenBreak(w, content) ==
    LET printed == write_fmt(w, print_macro(content))
    IN write_string(printed, <<NEWLINE>>)

\* C12: println!(c) leaves the grid and the cursor as print!(c) followed by
\* the writing of one line break leaves them, and the cursor is at column 0
\* after it; print!(c) puts the bytes of c, substituted, in cells and no other
\* byte, and when c has no line break and fits in the rest of the row it
\* changes the cells from the cursor on to those bytes and nothing else.
C12_PrintlnIsPrintAndBreak ==
    [][ /\ op'.kind = "println" =>
              LET broken == PrintThenBreak(CallStart, op'.arg)
              IN /\ chars' = broken.chars
                 /\ column_position' = broken.column_position
                 /\ column_position' = 0
                 /\ PutCodes = ShownCodes(Flat(op'.arg))
        /\ op'.kind = "print" =>
              LET text == Flat(op'.arg)
              IN /\ PutCodes = ShownCodes(text)
                 /\ color_code' = color_code
                 /\ (NoNewline(text) /\ column_position + Len(text) <= BUFFER_WIDTH)
                       => /\ chars' = [chars EXCEPT ![LastRow] =
                                          RowWith(@, column_position, text, color_code)]
                          /\ column_position' = column_position + Len(text)
      ]_vars

\* println!("X" * 79, "XX") from column 0: two scrolls, the second 'X' of the
\* second piece alone in the row above the last, the cursor at column 0.
C12_Witness ==
    /\ op.kind = "println"
    /\ op.arg = << Rep(88, BUFFER_WIDTH - 1), <<88, 88>> >>
    /\ start_column = 0
    /\ scrolls = 2
    /\ column_position = 0
    /\ chars[LastRow - 1][0].ascii_character = 88
    /\ chars[LastRow - 1][1] = Blank
    /\ chars[LastRow] = BlankRow(color_code)

\* C20: write_string(s) followed by write_string(t) leaves the grid and the
\* cursor as one write_string of s and t joined leaves them: the pieces of a
\* formatted text written one by one give what the joined text gives.
C20_Fragmentation ==
    [][ op'.kind \in {"print", "println"} =>
          LET args == IF op'.kind = "print" THEN print_macro(op'.arg)
                      ELSE println_args(op'.arg)
              joined == write_string(CallStart, Flat(args))
          IN /\ chars' = joined.chars
             /\ column_position' = joined.column_position
             /\ scrolls' = joined.scrolls
      ]_vars

\* print!("X" * 79, "XX") from column 2 of the ruled screen: the row ends
\* inside the first piece, and the second piece follows it in the new row.
C20_Witness ==
    /\ op.kind = "print"
    /\ op.arg = << Rep(88, BUFFER_WIDTH - 1), <<88, 88>> >>
    /\ start_column = 2
    /\ scrolls = 1
    /\ column_position = 3
    /\ chars[LastRow][2].ascii_character = 88
    /\ chars[LastRow - 1][BUFFER_WIDTH - 1].ascii_character = 88

====
